---------------------------- MODULE Spec2Model ----------------------------
(***************************************************************************)
(* Model of the envoy-body-to-header dynamic module: the body-based        *)
(* routing filter of src/src/body_based_routing.rs, its FilterConfig, and  *)
(* the host (Envoy) that drives the filter's callbacks for one request.    *)
(*                                                                         *)
(* Text is modelled as the sequence of its bytes (0..255).  The JSON       *)
(* reader follows serde_json: whitespace is space, \t, \n, \r; strings     *)
(* reject raw control bytes and decode escapes (\uXXXX to UTF-8, with      *)
(* surrogate pairs); an object keeps the last of two equal keys; trailing  *)
(* non-whitespace after the document is an error.  The value of a number   *)
(* is not kept, but a number whose value is infinite as an f64 is an       *)
(* error, and so is the 128th array or object opened inside one another.   *)
(* A value that is skipped (a member that FilterConfig does not have) is   *)
(* read by its grammar only.                                               *)
(*                                                                         *)
(* The readers are written as chains of small operators, each taking the   *)
(* result of the step before it as a parameter.                            *)
(***************************************************************************)
EXTENDS Integers, Sequences, FiniteSets, TLC

\* ------------------------------------------------------------------------
\* Bytes and text
\* ------------------------------------------------------------------------

\* The bytes of the ASCII words the code names.
KEY_TOKEN == <<34, 109, 101, 116, 104, 111, 100, 34>>   \* "\"method\""
METHOD    == <<109, 101, 116, 104, 111, 100>>           \* "method"
ECHO2     == <<101, 99, 104, 111, 50>>                  \* "echo2"
DEBUG     == <<100, 101, 98, 117, 103>>                 \* "debug"
LIT_NULL  == <<110, 117, 108, 108>>                     \* null
LIT_TRUE  == <<116, 114, 117, 101>>                     \* true
LIT_FALSE == <<102, 97, 108, 115, 101>>                 \* false

\* Whether the bytes `word` stand in `s` at position i.
StartsAt(s, i, word) ==
    /\ i >= 1
    /\ i + Len(word) - 1 <= Len(s)
    /\ \A k \in 1..Len(word) : s[i + k - 1] = word[k]

\* str::contains: `word` occurs in `s` as a contiguous run of bytes.
Contains(s, word) == \E i \in 1..(Len(s) + 1) : StartsAt(s, i, word)

\* s[k] exists and lies in lo..hi.
ByteIn(s, k, lo, hi) == k <= Len(s) /\ s[k] >= lo /\ s[k] <= hi

\* The length of the well-formed UTF-8 sequence starting at s[i] = b, 0 if
\* none (core::str::from_utf8: no overlong forms, no surrogates, at most
\* U+10FFFF).
Utf8SeqLen(s, i, b) ==
    IF b < 128 THEN 1
    ELSE IF b >= 194 /\ b <= 223
         THEN (IF ByteIn(s, i + 1, 128, 191) THEN 2 ELSE 0)
    ELSE IF b >= 224 /\ b <= 239
         THEN (IF /\ ByteIn(s, i + 1, IF b = 224 THEN 160 ELSE 128,
                                      IF b = 237 THEN 159 ELSE 191)
                  /\ ByteIn(s, i + 2, 128, 191)
               THEN 3 ELSE 0)
    ELSE IF b >= 240 /\ b <= 244
         THEN (IF /\ ByteIn(s, i + 1, IF b = 240 THEN 144 ELSE 128,
                                      IF b = 244 THEN 143 ELSE 191)
                  /\ ByteIn(s, i + 2, 128, 191)
                  /\ ByteIn(s, i + 3, 128, 191)
               THEN 4 ELSE 0)
    ELSE 0

\* A byte that continues a sequence (10xxxxxx).
Utf8Continues(b) == b >= 128 /\ b <= 191

\* s[i] belongs to a well-formed sequence: it starts one, or it continues
\* the one started one, two or three bytes before it.
Utf8Covered(s, i) ==
    IF Utf8Continues(s[i])
    THEN \E j \in {i - 1, i - 2, i - 3} :
            /\ j >= 1
            /\ ~Utf8Continues(s[j])
            /\ Utf8SeqLen(s, j, s[j]) > i - j
    ELSE Utf8SeqLen(s, i, s[i]) > 0

\* std::str::from_utf8(&body_data).is_ok(): the bytes are well-formed
\* sequences one after the other, that is, every byte belongs to one.
from_utf8_ok(s) == \A i \in 1..Len(s) : Utf8Covered(s, i)

\* char::encode_utf8 of a code point (never a surrogate here).
Utf8Encode(cp) ==
    IF cp < 128 THEN <<cp>>
    ELSE IF cp < 2048 THEN <<192 + (cp \div 64), 128 + (cp % 64)>>
    ELSE IF cp < 65536
         THEN <<224 + (cp \div 4096), 128 + ((cp \div 64) % 64), 128 + (cp % 64)>>
    ELSE <<240 + (cp \div 262144), 128 + ((cp \div 4096) % 64),
           128 + ((cp \div 64) % 64), 128 + (cp % 64)>>

\* ------------------------------------------------------------------------
\* serde_json: the reader
\* ------------------------------------------------------------------------

\* A reader's result: failure, or a value and the position after it.
Fail     == [ok |-> FALSE]
Ok(v, i) == [ok |-> TRUE, v |-> v, i |-> i]

JNull    == [t |-> "null"]
JBool(b) == [t |-> "bool", b |-> b]
JNumber  == [t |-> "number"]
JStr(s)  == [t |-> "string", s |-> s]
JArr(a)  == [t |-> "array", a |-> a]
JObj(m)  == [t |-> "object", m |-> m]

IsWs(b)    == b = 32 \/ b = 10 \/ b = 9 \/ b = 13
IsDigit(b) == b >= 48 /\ b <= 57
IsExp(b)   == b = 101 \/ b = 69

RECURSIVE SkipWs(_, _)
SkipWs(s, i) == IF i <= Len(s) /\ IsWs(s[i]) THEN SkipWs(s, i + 1) ELSE i

\* The position after the run of bytes from s[i] on that are all b with
\* lo <= b <= hi.
SkipRun(s, i, lo, hi) ==
    CHOOSE k \in (i..(Len(s) + 1)) \cup {i} :
        /\ ~ByteIn(s, k, lo, hi)
        /\ \A j \in i..(k - 1) : ByteIn(s, j, lo, hi)

SkipDigits(s, i) == SkipRun(s, i, 48, 57)

\* The number readers return the position after the number, 0 on an error.
\* The first ones follow the grammar only, as ignore_integer,
\* ignore_decimal and ignore_exponent do for a value that is skipped.
\* Digits must stand between j and k.
SomeDigits(j, k) == IF k > j THEN k ELSE 0

\* j is after 'e' or 'E': an optional sign, then digits.
ExponentAt(s, j) ==
    IF j <= Len(s) /\ (s[j] = 43 \/ s[j] = 45)
    THEN SomeDigits(j + 1, SkipDigits(s, j + 1))
    ELSE SomeDigits(j, SkipDigits(s, j))

\* k is after the integer part, or after the digits of the fraction.
ExponentOrEnd(s, k) ==
    IF k <= Len(s) /\ IsExp(s[k]) THEN ExponentAt(s, k + 1) ELSE k

\* j is after '.', k after the digits that follow it.
FractionEnd(s, j, k) == IF k = j THEN 0 ELSE ExponentOrEnd(s, k)

\* i is after the integer part.
ParseNumberTail(s, i) ==
    IF i <= Len(s) /\ s[i] = 46 THEN FractionEnd(s, i + 1, SkipDigits(s, i + 1))
    ELSE ExponentOrEnd(s, i)

\* i is at the first digit; a leading 0 may not be followed by a digit.
ParseInteger(s, i) ==
    IF i > Len(s) \/ ~IsDigit(s[i]) THEN 0
    ELSE IF s[i] = 48 /\ i + 1 <= Len(s) /\ IsDigit(s[i + 1]) THEN 0
    ELSE ParseNumberTail(s, IF s[i] = 48 THEN i + 1 ELSE SkipDigits(s, i + 1))

\* ------------------------------------------------------------------------
\* serde_json: the value of a number (parse_integer and what it calls)
\* ------------------------------------------------------------------------

\* A u64 significand is kept as its decimal digits, most significant first
\* and without leading zeros (zero is the empty sequence).
U64_MAX == <<1, 8, 4, 4, 6, 7, 4, 4, 0, 7, 3, 7, 0, 9, 5, 5, 1, 6, 1, 5>>
I32_MAX == 2147483647

\* a < b for two such numbers.
DigitsLess(a, b) ==
    \/ Len(a) < Len(b)
    \/ /\ Len(a) = Len(b)
       /\ \E k \in 1..Len(a) : /\ a[k] < b[k]
                               /\ \A j \in 1..(k - 1) : a[j] = b[j]

\* significand * 10 + digit
PushDigit(significand, digit) ==
    IF significand = <<>> /\ digit = 0 THEN <<>> ELSE Append(significand, digit)

\* overflow!(significand * 10 + digit, u64::MAX)
OverflowsU64(significand, digit) ==
    DigitsLess(U64_MAX, PushDigit(significand, digit))

\* overflow!(exp * 10 + digit, i32::MAX)
OverflowsI32(exp, digit) ==
    /\ exp >= I32_MAX \div 10
    /\ (exp > I32_MAX \div 10 \/ digit > I32_MAX % 10)

\* POW10 holds 1e0 to 1e308.  For an exponent e of 289 to 308 the entry at
\* e - 288 is the least significand s for which (s as f64) * POW10[e] is
\* infinite in f64 arithmetic (round to nearest, ties to even); below 289
\* no u64 gives an infinite product.
POW10_MAX == 308
F64_INFINITE_FROM == <<
    <<1, 7, 9, 7, 6, 9, 3, 1, 3, 4, 8, 6, 2, 3, 1, 5, 6, 2, 2, 5>>,
    <<1, 7, 9, 7, 6, 9, 3, 1, 3, 4, 8, 6, 2, 3, 1, 5, 6, 4, 9>>,
    <<1, 7, 9, 7, 6, 9, 3, 1, 3, 4, 8, 6, 2, 3, 1, 6, 0, 0>>,
    <<1, 7, 9, 7, 6, 9, 3, 1, 3, 4, 8, 6, 2, 3, 1, 5, 8>>,
    <<1, 7, 9, 7, 6, 9, 3, 1, 3, 4, 8, 6, 2, 3, 1, 6>>,
    <<1, 7, 9, 7, 6, 9, 3, 1, 3, 4, 8, 6, 2, 3, 2>>,
    <<1, 7, 9, 7, 6, 9, 3, 1, 3, 4, 8, 6, 2, 4>>,
    <<1, 7, 9, 7, 6, 9, 3, 1, 3, 4, 8, 6, 3>>,
    <<1, 7, 9, 7, 6, 9, 3, 1, 3, 4, 8, 7>>,
    <<1, 7, 9, 7, 6, 9, 3, 1, 3, 4, 9>>,
    <<1, 7, 9, 7, 6, 9, 3, 1, 3, 5>>,
    <<1, 7, 9, 7, 6, 9, 3, 1, 4>>,
    <<1, 7, 9, 7, 6, 9, 3, 2>>,
    <<1, 7, 9, 7, 6, 9, 4>>,
    <<1, 7, 9, 7, 7, 0>>,
    <<1, 7, 9, 7, 7>>,
    <<1, 7, 9, 8>>,
    <<1, 8, 0>>,
    <<1, 8>>,
    <<2>> >>

\* Deserializer::f64_from_parts: the end position k when
\* significand * 10^exponent is finite, 0 ("number out of range") when not.
\* A negative exponent only divides, and zero stays zero.
f64_from_parts(significand, exponent, k) ==
    IF significand = <<>> \/ exponent < 0 THEN k
    ELSE IF exponent > POW10_MAX THEN 0
    ELSE IF exponent <= POW10_MAX - Len(F64_INFINITE_FROM) THEN k
    ELSE IF DigitsLess(significand,
                       F64_INFINITE_FROM[exponent - (POW10_MAX
                                                     - Len(F64_INFINITE_FROM))])
         THEN k
    ELSE 0

\* starting_exp.saturating_add(exp) and saturating_sub(exp), for exp >= 0.
saturating_add(starting_exp, exp) ==
    IF starting_exp > 0 /\ exp > I32_MAX - starting_exp THEN I32_MAX
    ELSE starting_exp + exp

saturating_sub(starting_exp, exp) ==
    IF starting_exp < 0 /\ exp > (starting_exp + I32_MAX) + 1 THEN (0 - I32_MAX) - 1
    ELSE starting_exp - exp

\* Deserializer::parse_exponent_overflow, j after the digit that overflowed.
parse_exponent_overflow(s, j, zero_significand, positive_exp) ==
    IF ~zero_significand /\ positive_exp THEN 0 ELSE SkipDigits(s, j)

\* The digits of the exponent after its first one.  A run of zeros after
\* an exp of 0 leaves it 0 and is passed at once.
RECURSIVE ExponentDigits(_, _, _, _, _, _)
ExponentDigits(s, j, significand, starting_exp, positive_exp, exp) ==
    IF exp = 0 /\ ByteIn(s, j, 48, 48)
    THEN ExponentDigits(s, SkipRun(s, j, 48, 48), significand, starting_exp,
                        positive_exp, 0)
    ELSE IF j <= Len(s) /\ IsDigit(s[j])
    THEN (IF OverflowsI32(exp, s[j] - 48)
          THEN parse_exponent_overflow(s, j + 1, significand = <<>>, positive_exp)
          ELSE ExponentDigits(s, j + 1, significand, starting_exp, positive_exp,
                              exp * 10 + (s[j] - 48)))
    ELSE f64_from_parts(significand,
                        IF positive_exp THEN saturating_add(starting_exp, exp)
                        ELSE saturating_sub(starting_exp, exp),
                        j)

\* j is after the sign of the exponent: a digit must follow.
ExponentFirstDigit(s, j, significand, starting_exp, positive_exp) ==
    IF j <= Len(s) /\ IsDigit(s[j])
    THEN ExponentDigits(s, j + 1, significand, starting_exp, positive_exp,
                        s[j] - 48)
    ELSE 0

\* Deserializer::parse_exponent, j after 'e' or 'E'.
parse_exponent(s, j, significand, starting_exp) ==
    IF j <= Len(s) /\ (s[j] = 43 \/ s[j] = 45)
    THEN ExponentFirstDigit(s, j + 1, significand, starting_exp, s[j] = 43)
    ELSE ExponentFirstDigit(s, j, significand, starting_exp, TRUE)

\* After the last digit of the significand, at k: an exponent or the end.
ExponentOrValue(s, k, significand, exponent) ==
    IF k <= Len(s) /\ IsExp(s[k]) THEN parse_exponent(s, k + 1, significand, exponent)
    ELSE f64_from_parts(significand, exponent, k)

\* Deserializer::parse_decimal_overflow: the digits that no longer fit are
\* skipped.
parse_decimal_overflow(s, j, significand, exponent) ==
    ExponentOrValue(s, SkipDigits(s, j), significand, exponent)

\* Deserializer::parse_decimal from the digit at j on; after_point is
\* exponent_after_decimal_point, 0 as long as no digit was read.  A run
\* of zeros after a significand of 0 leaves it 0 and is passed at once.
RECURSIVE DecimalDigits(_, _, _, _, _)
DecimalDigits(s, j, significand, before_point, after_point) ==
    IF significand = <<>> /\ ByteIn(s, j, 48, 48)
    THEN DecimalDigits(s, SkipRun(s, j, 48, 48), significand, before_point,
                       after_point - (SkipRun(s, j, 48, 48) - j))
    ELSE IF j <= Len(s) /\ IsDigit(s[j])
    THEN (IF OverflowsU64(significand, s[j] - 48)
          THEN parse_decimal_overflow(s, j, significand,
                                      before_point + after_point)
          ELSE DecimalDigits(s, j + 1, PushDigit(significand, s[j] - 48),
                             before_point, after_point - 1))
    ELSE IF after_point = 0 THEN 0
    ELSE ExponentOrValue(s, j, significand, before_point + after_point)

\* Deserializer::parse_decimal, j after '.'.
parse_decimal(s, j, significand, exponent_before_decimal_point) ==
    DecimalDigits(s, j, significand, exponent_before_decimal_point, 0)

\* After the digits j..k-1 of an integer that no longer fit a u64.
LongIntegerEnd(s, k, significand, exponent) ==
    IF k <= Len(s) /\ s[k] = 46 THEN parse_decimal(s, k + 1, significand, exponent)
    ELSE ExponentOrValue(s, k, significand, exponent)

\* Deserializer::parse_long_integer: the integer no longer fits a u64; each
\* further digit of it counts as a power of ten.
parse_long_integer(s, j, significand) ==
    LongIntegerEnd(s, SkipDigits(s, j), significand, SkipDigits(s, j) - j)

\* Deserializer::parse_number, j after the integer part: an integer that
\* fits a u64 is always in range.
parse_number(s, j, significand) ==
    IF j <= Len(s) /\ s[j] = 46 THEN parse_decimal(s, j + 1, significand, 0)
    ELSE ExponentOrValue(s, j, significand, 0)

\* The digits of the integer part after its first one.
RECURSIVE IntegerDigits(_, _, _)
IntegerDigits(s, j, significand) ==
    IF j <= Len(s) /\ IsDigit(s[j])
    THEN (IF OverflowsU64(significand, s[j] - 48)
          THEN parse_long_integer(s, j, significand)
          ELSE IntegerDigits(s, j + 1, PushDigit(significand, s[j] - 48)))
    ELSE parse_number(s, j, significand)

\* Deserializer::parse_integer with i at the first digit: the position
\* after the number, 0 on an error (not a number, or out of range).
parse_integer(s, i) ==
    IF i > Len(s) \/ ~IsDigit(s[i]) THEN 0
    ELSE IF s[i] = 48
         THEN (IF i + 1 <= Len(s) /\ IsDigit(s[i + 1]) THEN 0
               ELSE parse_number(s, i + 1, <<>>))
    ELSE IntegerDigits(s, i + 1, <<s[i] - 48>>)

NumberResult(k) == IF k = 0 THEN Fail ELSE Ok(JNumber, k)

HexVal(b) ==
    IF b >= 48 /\ b <= 57 THEN b - 48
    ELSE IF b >= 97 /\ b <= 102 THEN b - 87
    ELSE IF b >= 65 /\ b <= 70 THEN b - 55
    ELSE -1

\* The hex digits at s[i..i+n-1] as a number, -1 when they are not there.
RECURSIVE HexNumber(_, _, _, _)
HexDigit(s, i, n, acc, d) ==
    IF d < 0 THEN -1 ELSE HexNumber(s, i + 1, n - 1, acc * 16 + d)

HexNumber(s, i, n, acc) ==
    IF n = 0 THEN acc
    ELSE IF i > Len(s) THEN -1
    ELSE HexDigit(s, i, n, acc, HexVal(s[i]))

Hex4(s, i) == HexNumber(s, i, 4, 0)

\* The second half of a surrogate pair: n2 is the number of the escape
\* that follows the first half n, -1 if none follows.
LowSurrogate(i, n, n2) ==
    IF n2 >= 56320 /\ n2 <= 57343
    THEN Ok(Utf8Encode(65536 + (n - 55296) * 1024 + (n2 - 56320)), i + 11)
    ELSE Fail

\* \uXXXX with i at the 'u' and n the number of its digits.  With validate
\* (parse_str) a lone surrogate is an error and a pair is combined; without
\* (ignore_str, for a value that is skipped) only the digits are checked.
UnicodeEscape(s, i, n, validate) ==
    IF n < 0 THEN Fail
    ELSE IF ~validate THEN Ok(<<>>, i + 5)
    ELSE IF n >= 56320 /\ n <= 57343 THEN Fail
    ELSE IF n >= 55296 /\ n <= 56319
         THEN LowSurrogate(i, n, IF StartsAt(s, i + 5, <<92, 117>>)
                                 THEN Hex4(s, i + 7) ELSE -1)
    ELSE Ok(Utf8Encode(n), i + 5)

\* i is at the byte c after the backslash.
ParseEscape(s, i, c, validate) ==
    IF c = 34 \/ c = 92 \/ c = 47 THEN Ok(<<c>>, i + 1)
    ELSE IF c = 98 THEN Ok(<<8>>, i + 1)
    ELSE IF c = 102 THEN Ok(<<12>>, i + 1)
    ELSE IF c = 110 THEN Ok(<<10>>, i + 1)
    ELSE IF c = 114 THEN Ok(<<13>>, i + 1)
    ELSE IF c = 116 THEN Ok(<<9>>, i + 1)
    ELSE IF c = 117 THEN UnicodeEscape(s, i, Hex4(s, i + 1), validate)
    ELSE Fail

\* The rest of a string: i is after the opening quote or after what was
\* read into acc; the result's position is after the closing quote.
RECURSIVE ParseStr(_, _, _, _)
AfterEscape(s, acc, validate, e) ==
    IF e.ok THEN ParseStr(s, e.i, acc \o e.v, validate) ELSE Fail

ParseStr(s, i, acc, validate) ==
    IF i > Len(s) THEN Fail
    ELSE IF s[i] = 34 THEN Ok(acc, i + 1)
    ELSE IF s[i] = 92
         THEN (IF i + 1 > Len(s) THEN Fail
               ELSE AfterEscape(s, acc, validate,
                                ParseEscape(s, i + 1, s[i + 1], validate)))
    ELSE IF s[i] < 32 THEN Fail
    ELSE ParseStr(s, i + 1, Append(acc, s[i]), validate)

StringResult(r) == IF r.ok THEN Ok(JStr(r.v), r.i) ELSE Fail

\* Deserializer::remaining_depth at the start, and what it is inside the
\* array or object that is opened at `depth`: check_recursion! counts an
\* opened array or object and fails when the count reaches 0; ignore_value
\* does not count.
RECURSION_LIMIT == 128

Inside(validate, depth) == IF validate THEN depth - 1 ELSE depth

RecursionLimitExceeded(validate, depth) == validate /\ Inside(validate, depth) = 0

RECURSIVE ParseValue(_, _, _, _)
RECURSIVE ParseElements(_, _, _, _, _)
RECURSIVE ParseMembers(_, _, _, _, _, _)

\* An array: j is the first position after '[' that is not whitespace.
\* depth is the remaining depth inside the array.
ArrayAt(s, j, validate, depth) ==
    IF j <= Len(s) /\ s[j] = 93 THEN Ok(JArr(<<>>), j + 1)
    ELSE ParseElements(s, j, <<>>, validate, depth)

\* An object: j is the first position after '{' that is not whitespace.
\* keyValidate is how this object's keys are read, validate how everything
\* inside its values is, depth the remaining depth inside the object.
ObjectAt(s, j, keyValidate, validate, depth) ==
    IF j <= Len(s) /\ s[j] = 125 THEN Ok(JObj(<<>>), j + 1)
    ELSE ParseMembers(s, j, <<>>, keyValidate, validate, depth)

\* The value that starts at position i, which is not whitespace.
ValueAt(s, i, validate, depth) ==
    IF i > Len(s) THEN Fail
    ELSE IF s[i] = 110 THEN (IF StartsAt(s, i, LIT_NULL) THEN Ok(JNull, i + 4) ELSE Fail)
    ELSE IF s[i] = 116
         THEN (IF StartsAt(s, i, LIT_TRUE) THEN Ok(JBool(TRUE), i + 4) ELSE Fail)
    ELSE IF s[i] = 102
         THEN (IF StartsAt(s, i, LIT_FALSE) THEN Ok(JBool(FALSE), i + 5) ELSE Fail)
    ELSE IF s[i] = 45 \/ IsDigit(s[i])
         THEN NumberResult(IF validate
                           THEN parse_integer(s, IF s[i] = 45 THEN i + 1 ELSE i)
                           ELSE ParseInteger(s, IF s[i] = 45 THEN i + 1 ELSE i))
    ELSE IF s[i] = 34 THEN StringResult(ParseStr(s, i + 1, <<>>, validate))
    ELSE IF s[i] = 91 \/ s[i] = 123
         THEN (IF RecursionLimitExceeded(validate, depth) THEN Fail
               ELSE IF s[i] = 91
                    THEN ArrayAt(s, SkipWs(s, i + 1), validate,
                                 Inside(validate, depth))
               ELSE ObjectAt(s, SkipWs(s, i + 1), validate, validate,
                             Inside(validate, depth)))
    ELSE Fail

\* Deserializer::deserialize_any / ignore_value from position i on.
ParseValue(s, i, validate, depth) == ValueAt(s, SkipWs(s, i), validate, depth)

\* After an element: k is the next position that is not whitespace.
ElementsNext(s, acc, validate, depth, k) ==
    IF k > Len(s) THEN Fail
    ELSE IF s[k] = 44 THEN ParseElements(s, k + 1, acc, validate, depth)
    ELSE IF s[k] = 93 THEN Ok(JArr(acc), k + 1)
    ELSE Fail

ElementRead(s, acc, validate, depth, v) ==
    IF ~v.ok THEN Fail
    ELSE ElementsNext(s, Append(acc, v.v), validate, depth, SkipWs(s, v.i))

\* The elements of an array from position i on, after those in acc.
ParseElements(s, i, acc, validate, depth) ==
    ElementRead(s, acc, validate, depth, ParseValue(s, i, validate, depth))

\* After a member: k is the next position that is not whitespace.
MembersNext(s, acc, keyValidate, validate, depth, k) ==
    IF k > Len(s) THEN Fail
    ELSE IF s[k] = 44
         THEN ParseMembers(s, SkipWs(s, k + 1), acc, keyValidate, validate,
                           depth)
    ELSE IF s[k] = 125 THEN Ok(JObj(acc), k + 1)
    ELSE Fail

MemberValueRead(s, acc, keyValidate, validate, depth, key, v) ==
    IF ~v.ok THEN Fail
    ELSE MembersNext(s, Append(acc, <<key, v.v>>), keyValidate, validate,
                     depth, SkipWs(s, v.i))

\* After a key: j is the next position that is not whitespace, a ':'.
MemberColon(s, acc, keyValidate, validate, depth, key, j) ==
    IF j > Len(s) \/ s[j] # 58 THEN Fail
    ELSE MemberValueRead(s, acc, keyValidate, validate, depth, key,
                         ParseValue(s, j + 1, validate, depth))

MemberKeyRead(s, acc, keyValidate, validate, depth, key) ==
    IF ~key.ok THEN Fail
    ELSE MemberColon(s, acc, keyValidate, validate, depth, key.v,
                     SkipWs(s, key.i))

\* The members of an object from position i (not whitespace) on, after
\* those in acc.  A key is a string.
ParseMembers(s, i, acc, keyValidate, validate, depth) ==
    IF i > Len(s) \/ s[i] # 34 THEN Fail
    ELSE MemberKeyRead(s, acc, keyValidate, validate, depth,
                       ParseStr(s, i + 1, <<>>, keyValidate))

\* Deserializer::end: only whitespace may follow the document.
EndOk(s, i) == SkipWs(s, i) > Len(s)

Document(s, r) == IF r.ok /\ EndOk(s, r.i) THEN [ok |-> TRUE, v |-> r.v] ELSE Fail

\* serde_json::from_str::<serde_json::Value>(s)
from_str_Value(s) == Document(s, ParseValue(s, 1, TRUE, RECURSION_LIMIT))

\* The positions of the members of m whose key is `key`.
KeyPositions(m, key) == {k \in 1..Len(m) : m[k][1] = key}

Max(S) == CHOOSE x \in S : \A y \in S : y <= x

\* Value::get(key): the member of an object with that key (Map::insert
\* keeps the last of equal keys); None for any other value.
Value_get(v, key) ==
    IF v.t = "object" /\ KeyPositions(v.m, key) # {}
    THEN [some |-> TRUE, v |-> v.m[Max(KeyPositions(v.m, key))][2]]
    ELSE [some |-> FALSE]

\* Option::as_str on the result of Value::get.
as_str(o) ==
    IF o.some /\ o.v.t = "string" THEN [some |-> TRUE, s |-> o.v.s]
    ELSE [some |-> FALSE, s |-> <<>>]

\* ------------------------------------------------------------------------
\* FilterConfig
\* ------------------------------------------------------------------------

\* The length of the White_Space character starting at s[i] = b, 0 if none
\* (char::is_whitespace, which str::trim removes).
WhiteSpaceLen(s, i, b) ==
    IF (b >= 9 /\ b <= 13) \/ b = 32 THEN 1
    ELSE IF b = 194 /\ (ByteIn(s, i + 1, 133, 133) \/ ByteIn(s, i + 1, 160, 160))
         THEN 2
    ELSE IF b = 225 /\ ByteIn(s, i + 1, 154, 154) /\ ByteIn(s, i + 2, 128, 128)
         THEN 3
    ELSE IF b = 226 /\ ByteIn(s, i + 1, 128, 128)
            /\ (ByteIn(s, i + 2, 128, 138) \/ ByteIn(s, i + 2, 168, 169)
                \/ ByteIn(s, i + 2, 175, 175))
         THEN 3
    ELSE IF b = 226 /\ ByteIn(s, i + 1, 129, 129) /\ ByteIn(s, i + 2, 159, 159)
         THEN 3
    ELSE IF b = 227 /\ ByteIn(s, i + 1, 128, 128) /\ ByteIn(s, i + 2, 128, 128)
         THEN 3
    ELSE 0

RECURSIVE AllWhiteSpaceFrom(_, _)
WhiteSpaceStep(s, i, n) == IF n = 0 THEN FALSE ELSE AllWhiteSpaceFrom(s, i + n)

AllWhiteSpaceFrom(s, i) ==
    IF i > Len(s) THEN TRUE ELSE WhiteSpaceStep(s, i, WhiteSpaceLen(s, i, s[i]))

\* filter_config.trim().is_empty()
trim_is_empty(s) == AllWhiteSpaceFrom(s, 1)

\* The struct from the one member `debug` at position p of members m.
DebugMember(d) ==
    IF d.t = "bool" THEN [ok |-> TRUE, v |-> [debug |-> d.b]] ELSE Fail

\* The struct read from an object: `debug` a bool and at most once (a
\* second one is the error "duplicate field"), false when it is missing.
StructFromMembers(m, at) ==
    IF at = {} THEN [ok |-> TRUE, v |-> [debug |-> FALSE]]
    ELSE IF Cardinality(at) > 1 THEN Fail
    ELSE DebugMember(m[Max(at)][2])

StructFromObject(s, r) ==
    IF ~r.ok \/ ~EndOk(s, r.i) THEN Fail
    ELSE StructFromMembers(r.v.m, KeyPositions(r.v.m, DEBUG))

\* The struct read from an array: its first element is `debug`, false
\* when there is none, and nothing may follow it.
StructFromArray(s, r) ==
    IF ~r.ok \/ ~EndOk(s, r.i) THEN Fail
    ELSE IF Len(r.v.a) = 0 THEN [ok |-> TRUE, v |-> [debug |-> FALSE]]
    ELSE IF Len(r.v.a) = 1 THEN DebugMember(r.v.a[1])
    ELSE Fail

\* The struct at position i, which is not whitespace.  Keys of the struct
\* are validated; the values of other members are skipped (ignore_value).
StructAt(s, i) ==
    IF i > Len(s) THEN Fail
    ELSE IF s[i] = 123
         THEN StructFromObject(s, ObjectAt(s, SkipWs(s, i + 1), TRUE, FALSE,
                                       RECURSION_LIMIT - 1))
    ELSE IF s[i] = 91
         THEN StructFromArray(s, ArrayAt(s, SkipWs(s, i + 1), FALSE,
                                     RECURSION_LIMIT - 1))
    ELSE Fail

\* serde_json::from_str::<FilterConfig>(s), FilterConfig deriving
\* Deserialize with #[serde(default)] debug: bool.
from_str_FilterConfig(s) == StructAt(s, SkipWs(s, 1))

\* unwrap_or_else(|_| FilterConfig { debug: false })
unwrap_or_default(r) == IF r.ok THEN r.v ELSE [debug |-> FALSE]

\* A plausible slip: the parse error is unwrapped to debug = true.
unwrap_or_debug(r) == IF r.ok THEN r.v ELSE [debug |-> TRUE]

\* A plausible slip: a text that fails to parse gives debug = true.
FilterConfig_new_error_true(filter_config) ==
    IF trim_is_empty(filter_config) THEN [debug |-> FALSE]
    ELSE unwrap_or_debug(from_str_FilterConfig(filter_config))

\* FilterConfig::new
FilterConfig_new(filter_config) ==
    IF trim_is_empty(filter_config) THEN [debug |-> FALSE]
    ELSE unwrap_or_default(from_str_FilterConfig(filter_config))

\* ------------------------------------------------------------------------
\* The routing filter (Filter is a unit struct: it holds no state)
\* ------------------------------------------------------------------------

\* What envoy_filter.get_request_body() returns: None, or the buffers.
None          == [some |-> FALSE, buffers |-> <<>>]
Some(buffers) == [some |-> TRUE, buffers |-> buffers]

\* A plausible slip: only the last buffer is kept (assignment for extend).
body_data_last_buffer(body_buffers) ==
    IF body_buffers = <<>> THEN <<>> ELSE body_buffers[Len(body_buffers)]

\* body_data after the loop `for buffer in body_buffers { extend_from_slice }`.
RECURSIVE body_data(_)
body_data(body_buffers) ==
    IF body_buffers = <<>> THEN <<>>
    ELSE Head(body_buffers) \o body_data(Tail(body_buffers))

\* A plausible slip: the body text is searched for echo2 without being parsed.
route_to_unparsed(host_body) ==
    IF host_body.some /\ Contains(body_data(host_body.buffers), ECHO2)
    THEN "echo2" ELSE "echo1"

\* A plausible slip: once the body is a JSON document holding the key
\* token, echo2 is looked for in the whole text and not in the field.
route_of_data_any_echo2(data) ==
    IF data = <<>> THEN "echo1"
    ELSE IF ~from_utf8_ok(data) THEN "echo1"
    ELSE IF ~Contains(data, KEY_TOKEN) THEN "echo1"
    ELSE IF from_str_Value(data).ok /\ Contains(data, ECHO2) THEN "echo2"
    ELSE "echo1"

\* as_str() of the `method` member contains "echo2".
route_of_method(method) ==
    IF method.some /\ Contains(method.s, ECHO2) THEN "echo2" ELSE "echo1"

route_of_json(json_value) ==
    IF ~json_value.ok THEN "echo1"
    ELSE route_of_method(as_str(Value_get(json_value.v, METHOD)))

route_of_data(data) ==
    IF data = <<>> THEN "echo1"
    ELSE IF ~from_utf8_ok(data) THEN "echo1"
    ELSE IF ~Contains(data, KEY_TOKEN) THEN "echo1"
    ELSE route_of_json(from_str_Value(data))

\* The value of route_to when on_request_body sets the header.
route_to(host_body) ==
    IF ~host_body.some THEN "echo1"
    ELSE route_of_data(body_data(host_body.buffers))

\* The events of a request: a callback being invoked, a call the callback
\* makes on envoy_filter, the callback returning a status.
Invoke(name, eos)         == [kind |-> "invoke", name |-> name, eos |-> eos,
                              key |-> "", value |-> ""]
Call(name, key, value)    == [kind |-> "call", name |-> name, eos |-> FALSE,
                              key |-> key, value |-> value]
Return(name, eos, status) == [kind |-> "return", name |-> name, eos |-> eos,
                              key |-> "", value |-> status]

\* A callback's outcome: the calls it makes, in order, and what it returns.
Outcome(calls, status) == [calls |-> calls, status |-> status]

\* A plausible slip: the header callback pauses whatever end_of_stream is.
on_request_headers_always_pause(end_of_stream) ==
    Outcome(<<>>, "StopIteration")

\* Filter::on_request_headers
on_request_headers(end_of_stream) ==
    IF ~end_of_stream THEN Outcome(<<>>, "StopIteration")
    ELSE Outcome(<<>>, "Continue")

\* The decision step of on_request_body: read the body, set the header,
\* clear the route cache, resume.
decide(host_body) ==
    Outcome(<<Call("get_request_body", "", ""),
              Call("set_request_header", "x-route-to", route_to(host_body)),
              Call("clear_route_cache", "", "")>>,
            "Continue")

\* Plausible slips of on_request_body.
on_request_body_clear_first(host_body, end_of_stream) ==
    IF ~end_of_stream THEN Outcome(<<>>, "StopIterationAndBuffer")
    ELSE Outcome(<<Call("get_request_body", "", ""),
                   Call("clear_route_cache", "", ""),
                   Call("set_request_header", "x-route-to", route_to(host_body))>>,
                 "Continue")

on_request_body_no_clear(host_body, end_of_stream) ==
    IF ~end_of_stream THEN Outcome(<<>>, "StopIterationAndBuffer")
    ELSE Outcome(<<Call("get_request_body", "", ""),
                   Call("set_request_header", "x-route-to", route_to(host_body))>>,
                 "Continue")

on_request_body_set_twice(host_body, end_of_stream) ==
    IF ~end_of_stream THEN Outcome(<<>>, "StopIterationAndBuffer")
    ELSE Outcome(<<Call("get_request_body", "", ""),
                   Call("set_request_header", "x-route-to", "echo1"),
                   Call("set_request_header", "x-route-to", route_to(host_body)),
                   Call("clear_route_cache", "", "")>>,
                 "Continue")

on_request_body_partial_decision(host_body, end_of_stream) ==
    IF ~end_of_stream
    THEN Outcome(decide(host_body).calls, "StopIterationAndBuffer")
    ELSE decide(host_body)

\* A plausible slip: a body that is not a JSON document is answered with an
\* error response and the request is stopped.
on_request_body_reject_invalid(host_body, end_of_stream) ==
    IF /\ end_of_stream
       /\ host_body.some
       /\ body_data(host_body.buffers) # <<>>
       /\ ~from_str_Value(body_data(host_body.buffers)).ok
    THEN Outcome(<<Call("get_request_body", "", ""),
                   Call("send_response", "", "400")>>,
                 "StopIterationNoBuffer")
    ELSE IF ~end_of_stream THEN Outcome(<<>>, "StopIterationAndBuffer")
    ELSE decide(host_body)

\* A plausible slip: when the host reports no body buffers on the final
\* chunk, the callback returns the buffering status to wait for data.
on_request_body_wait_for_data(host_body, end_of_stream) ==
    IF ~end_of_stream THEN Outcome(<<>>, "StopIterationAndBuffer")
    ELSE IF ~host_body.some
    THEN Outcome(<<Call("get_request_body", "", "")>>, "StopIterationAndBuffer")
    ELSE decide(host_body)

\* Filter::on_request_body
on_request_body(host_body, end_of_stream) ==
    IF ~end_of_stream THEN Outcome(<<>>, "StopIterationAndBuffer")
    ELSE decide(host_body)

\* Filter does not define on_request_trailers: the trait's default runs,
\* which makes no call and returns Continue.
on_request_trailers == Outcome(<<>>, "Continue")

\* ------------------------------------------------------------------------
\* Inputs
\* ------------------------------------------------------------------------

\* The most data chunks a request body is delivered in.
MaxChunks == 3
\* The most tokens a generated body or configuration text is made of.
MaxTokens == 3
\* The most callbacks a host that does not keep Envoy's order invokes.
MaxCalls == 5

\* {"method":"invoke_echo2_service"}
B_echo2 ==
    <<123, 34, 109, 101, 116, 104, 111, 100, 34, 58, 34, 105, 110, 118,
      111, 107, 101, 95, 101, 99, 104, 111, 50, 95, 115, 101, 114, 118,
      105, 99, 101, 34, 125>>
\* {"method":"invoke_echo1"}
B_echo1 ==
    <<123, 34, 109, 101, 116, 104, 111, 100, 34, 58, 34, 105, 110, 118,
      111, 107, 101, 95, 101, 99, 104, 111, 49, 34, 125>>
\* {}
B_empty_object == <<123, 125>>
\* not json at all
B_not_json ==
    <<110, 111, 116, 32, 106, 115, 111, 110, 32, 97, 116, 32, 97, 108, 108>>
\* (the empty body)
B_empty == <<>>
\* the byte 0xFF, then {"method":"echo2"}: not UTF-8
B_non_utf8 ==
    <<255, 123, 34, 109, 101, 116, 104, 111, 100, 34, 58, 34, 101, 99, 104,
      111, 50, 34, 125>>
\* {"m\u0065thod":"echo2"}
B_escaped_key ==
    <<123, 34, 109, 92, 117, 48, 48, 54, 53, 116, 104, 111, 100, 34, 58,
      34, 101, 99, 104, 111, 50, 34, 125>>
\* {"method":"ech\u006f2"}
B_escaped_value ==
    <<123, 34, 109, 101, 116, 104, 111, 100, 34, 58, 34, 101, 99, 104, 92,
      117, 48, 48, 54, 102, 50, 34, 125>>
\* {"a":{"method":"echo2"}}
B_nested ==
    <<123, 34, 97, 34, 58, 123, 34, 109, 101, 116, 104, 111, 100, 34, 58,
      34, 101, 99, 104, 111, 50, 34, 125, 125>>
\* {"method":2,"x":"echo2"}
B_number ==
    <<123, 34, 109, 101, 116, 104, 111, 100, 34, 58, 50, 44, 34, 120, 34,
      58, 34, 101, 99, 104, 111, 50, 34, 125>>
\* {"method":null,"x":"echo2"}
B_null ==
    <<123, 34, 109, 101, 116, 104, 111, 100, 34, 58, 110, 117, 108, 108,
      44, 34, 120, 34, 58, 34, 101, 99, 104, 111, 50, 34, 125>>
\* {"method":true}
B_bool ==
    <<123, 34, 109, 101, 116, 104, 111, 100, 34, 58, 116, 114, 117, 101,
      125>>
\* {"method":["echo2"]}
B_array_value ==
    <<123, 34, 109, 101, 116, 104, 111, 100, 34, 58, 91, 34, 101, 99, 104,
      111, 50, 34, 93, 125>>
\* {"method":{"echo2":1}}
B_object_value ==
    <<123, 34, 109, 101, 116, 104, 111, 100, 34, 58, 123, 34, 101, 99, 104,
      111, 50, 34, 58, 49, 125, 125>>
\* ["method","echo2"]
B_array_top ==
    <<91, 34, 109, 101, 116, 104, 111, 100, 34, 44, 34, 101, 99, 104, 111,
      50, 34, 93>>
\* {"method":"echo2","method":"x"}
B_last_key_other ==
    <<123, 34, 109, 101, 116, 104, 111, 100, 34, 58, 34, 101, 99, 104, 111,
      50, 34, 44, 34, 109, 101, 116, 104, 111, 100, 34, 58, 34, 120, 34,
      125>>
\* {"method":"x","method":"echo2"}
B_last_key_echo2 ==
    <<123, 34, 109, 101, 116, 104, 111, 100, 34, 58, 34, 120, 34, 44, 34,
      109, 101, 116, 104, 111, 100, 34, 58, 34, 101, 99, 104, 111, 50, 34,
      125>>
\* {"method":"echo2"} x
B_trailing ==
    <<123, 34, 109, 101, 116, 104, 111, 100, 34, 58, 34, 101, 99, 104, 111,
      50, 34, 125, 32, 120>>
\* {"method":"echo2"
B_truncated ==
    <<123, 34, 109, 101, 116, 104, 111, 100, 34, 58, 34, 101, 99, 104, 111,
      50, 34>>
\* space {"method" :<tab>"echo2" }<newline>
B_whitespace ==
    <<32, 123, 34, 109, 101, 116, 104, 111, 100, 34, 32, 58, 9, 34, 101,
      99, 104, 111, 50, 34, 32, 125, 10>>
\* "method" echo2
B_text == <<34, 109, 101, 116, 104, 111, 100, 34, 32, 101, 99, 104, 111, 50>>
\* {"method":"ECHO2"}
B_upper ==
    <<123, 34, 109, 101, 116, 104, 111, 100, 34, 58, 34, 69, 67, 72, 79,
      50, 34, 125>>
\* {"x":"method","y":"echo2"}
B_token_in_value ==
    <<123, 34, 120, 34, 58, 34, 109, 101, 116, 104, 111, 100, 34, 44, 34,
      121, 34, 58, 34, 101, 99, 104, 111, 50, 34, 125>>
\* {"method":"echo2<U+00E9>"}
B_multibyte ==
    <<123, 34, 109, 101, 116, 104, 111, 100, 34, 58, 34, 101, 99, 104, 111,
      50, 195, 169, 34, 125>>
\* {"route":"echo2"}
B_other_key ==
    <<123, 34, 114, 111, 117, 116, 101, 34, 58, 34, 101, 99, 104, 111, 50,
      34, 125>>
\* {"method":"echo2","x":1e999}
B_number_out_of_range ==
    <<123, 34, 109, 101, 116, 104, 111, 100, 34, 58, 34, 101, 99, 104, 111,
      50, 34, 44, 34, 120, 34, 58, 49, 101, 57, 57, 57, 125>>
\* {"method":"echo2","x":1e308}
B_number_in_range ==
    <<123, 34, 109, 101, 116, 104, 111, 100, 34, 58, 34, 101, 99, 104, 111,
      50, 34, 44, 34, 120, 34, 58, 49, 101, 51, 48, 56, 125>>
\* {"method":"echo2","x":18446744073709551616}
B_long_integer ==
    <<123, 34, 109, 101, 116, 104, 111, 100, 34, 58, 34, 101, 99, 104, 111,
      50, 34, 44, 34, 120, 34, 58, 49, 56, 52, 52, 54, 55, 52, 52, 48, 55,
      51, 55, 48, 57, 53, 53, 49, 54, 49, 54, 125>>
\* {"method":"echo2","x":[[[1.5e-999]]]}
B_nested_arrays ==
    <<123, 34, 109, 101, 116, 104, 111, 100, 34, 58, 34, 101, 99, 104, 111,
      50, 34, 44, 34, 120, 34, 58, 91, 91, 91, 49, 46, 53, 101, 45, 57, 57,
      57, 93, 93, 93, 125>>

Corpus ==
    {B_echo2, B_echo1, B_empty_object, B_not_json,
     B_empty, B_non_utf8, B_escaped_key, B_escaped_value,
     B_nested, B_number, B_null, B_bool,
     B_array_value, B_object_value, B_array_top, B_last_key_other,
     B_last_key_echo2, B_trailing, B_truncated, B_whitespace,
     B_text, B_upper, B_token_in_value, B_multibyte,
     B_other_key, B_number_out_of_range, B_number_in_range,
     B_long_integer, B_nested_arrays}

\* The bodies the request lifecycle is run on.
LifecycleBodies ==
    {B_empty, B_empty_object, B_echo2, B_echo1, B_not_json, B_non_utf8,
     B_escaped_key}

\* {"method":
T_method_key == <<123, 34, 109, 101, 116, 104, 111, 100, 34, 58>>
\* {"m\u0065thod":
T_escaped_key ==
    <<123, 34, 109, 92, 117, 48, 48, 54, 53, 116, 104, 111, 100, 34, 58>>
\* "echo2"
T_echo2 == <<34, 101, 99, 104, 111, 50, 34>>
\* "echo1"
T_echo1 == <<34, 101, 99, 104, 111, 49, 34>>
\* }
T_close == <<125>>
\* 7
T_seven == <<55>>
\* (a space)
T_space == <<32>>
\* the byte 0xFF
T_ff == <<255>>
\* ,"method":
T_more_method == <<44, 34, 109, 101, 116, 104, 111, 100, 34, 58>>

BodyTokens ==
    {T_method_key, T_escaped_key, T_echo2, T_echo1,
     T_close, T_seven, T_space, T_ff,
     T_more_method}

\* (the empty text)
G_empty == <<>>
\* {"debug": true}
G_debug_true ==
    <<123, 34, 100, 101, 98, 117, 103, 34, 58, 32, 116, 114, 117, 101, 125>>
\* invalid json
G_invalid == <<105, 110, 118, 97, 108, 105, 100, 32, 106, 115, 111, 110>>
\* null
G_null == <<110, 117, 108, 108>>
\* space, tab, newline
G_blank == <<32, 9, 10>>
\* U+000B: white space for trim, not for JSON
G_vertical_tab == <<11>>
\* <U+00A0>{"debug":true}: white space for trim, not for JSON
G_nbsp_object ==
    <<194, 160, 123, 34, 100, 101, 98, 117, 103, 34, 58, 116, 114, 117,
      101, 125>>
\* U+00A0 U+2003 U+3000: white space for trim
G_nbsp == <<194, 160, 226, 128, 131, 227, 128, 128>>
\* {"verbose":true}
G_other_key ==
    <<123, 34, 118, 101, 114, 98, 111, 115, 101, 34, 58, 116, 114, 117,
      101, 125>>
\* {"debug":1}
G_debug_number == <<123, 34, 100, 101, 98, 117, 103, 34, 58, 49, 125>>
\* {"debug":"true"}
G_debug_string ==
    <<123, 34, 100, 101, 98, 117, 103, 34, 58, 34, 116, 114, 117, 101, 34,
      125>>
\* {"x":{"y":[1,"\ud800"]},"debug":true}
G_extra_key ==
    <<123, 34, 120, 34, 58, 123, 34, 121, 34, 58, 91, 49, 44, 34, 92, 117,
      100, 56, 48, 48, 34, 93, 125, 44, 34, 100, 101, 98, 117, 103, 34, 58,
      116, 114, 117, 101, 125>>
\* [true,false]
G_array_two == <<91, 116, 114, 117, 101, 44, 102, 97, 108, 115, 101, 93>>
\* {"debug": true, "x": 1e999}
G_number_out_of_range ==
    <<123, 34, 100, 101, 98, 117, 103, 34, 58, 32, 116, 114, 117, 101, 44,
      32, 34, 120, 34, 58, 32, 49, 101, 57, 57, 57, 125>>

ConfigCorpus ==
    {G_empty, G_debug_true, G_invalid, G_null,
     G_blank, G_vertical_tab, G_nbsp_object, G_nbsp,
     G_other_key, G_debug_number, G_debug_string, G_extra_key,
     G_array_two, G_number_out_of_range}

\* {"debug":
K_debug_key == <<123, 34, 100, 101, 98, 117, 103, 34, 58>>
\* true
K_true == <<116, 114, 117, 101>>
\* false
K_false == <<102, 97, 108, 115, 101>>
\* null
K_null == <<110, 117, 108, 108>>
\* {
K_open == <<123>>
\* }
K_close == <<125>>
\* (a space)
K_space == <<32>>
\* [
K_array_open == <<91>>
\* ]
K_array_close == <<93>>
\* ,"debug":
K_more_debug == <<44, 34, 100, 101, 98, 117, 103, 34, 58>>

ConfigTokens ==
    {K_debug_key, K_true, K_false, K_null,
     K_open, K_close, K_space, K_array_open,
     K_array_close, K_more_debug}

\* The concatenations of at most n of the tokens.
RECURSIVE TokenTexts(_, _)
TokenTexts(tokens, n) ==
    IF n = 0 THEN {<<>>}
    ELSE LET shorter == TokenTexts(tokens, n - 1)
         IN  shorter \cup {p \o t : p \in shorter, t \in tokens}

RouteBodies == Corpus \cup TokenTexts(BodyTokens, MaxTokens)
ConfigTexts == ConfigCorpus \cup TokenTexts(ConfigTokens, MaxTokens)

\* ------------------------------------------------------------------------
\* The host and one request
\* ------------------------------------------------------------------------

VARIABLES
    cfg_text,            \* the configuration text of the filter chain
    config,              \* the FilterConfig made from it
    stage,               \* where the host is in the request
    remaining,           \* the body bytes the client has still to deliver
    buffered,            \* the data chunks delivered so far, in order
    released,            \* the host has resumed the request (a Continue)
    request_headers,     \* the values of the request's headers
    route_cache_clears,  \* how often the route cache was invalidated
    trace,               \* the events of the request, in order
    other                \* a second request in flight, when there is one

vars == <<cfg_text, config, stage, remaining, buffered, released,
          request_headers, route_cache_clears, trace, other>>

NoConfig == [loaded |-> FALSE, debug |-> FALSE]

\* A request for which no callback has run: it has its own headers, its own
\* host buffer and, once new_http_filter has run, its own Filter.
FreshRequest(at, body) ==
    [stage |-> at, remaining |-> body, buffered |-> <<>>, released |-> FALSE,
     request_headers |-> [h \in {"x-route-to"} |-> <<>>],
     route_cache_clears |-> 0, trace |-> <<>>]

\* No second request.
NoRequest == FreshRequest("none", <<>>)

InitRequest ==
    /\ config = NoConfig
    /\ stage = "start"
    /\ buffered = <<>>
    /\ released = FALSE
    /\ request_headers = [h \in {"x-route-to"} |-> <<>>]
    /\ route_cache_clears = 0
    /\ trace = <<>>
    /\ other = NoRequest

Init ==
    /\ cfg_text \in {G_empty, G_debug_true}
    /\ remaining \in LifecycleBodies
    /\ InitRequest

InitRoute ==
    /\ cfg_text = G_empty
    /\ remaining \in RouteBodies
    /\ InitRequest

InitAnyHost ==
    /\ cfg_text \in {G_empty, G_debug_true}
    /\ remaining \in {B_empty, B_empty_object, B_echo2}
    /\ InitRequest

InitConfig ==
    /\ cfg_text \in ConfigTexts
    /\ remaining = <<>>
    /\ InitRequest

\* The headers after the calls: set_request_header replaces the values.
RECURSIVE HeadersAfter(_, _)
HeadersAfter(headers, calls) ==
    IF calls = <<>> THEN headers
    ELSE LET c == Head(calls) IN
         HeadersAfter(IF c.name = "set_request_header"
                      THEN [headers EXCEPT ![c.key] = <<c.value>>]
                      ELSE headers,
                      Tail(calls))

\* The events of `kind` and `name` in a sequence of events.
Events(evs, kind, name) ==
    {k \in 1..Len(evs) : evs[k].kind = kind /\ evs[k].name = name}

CallCount(calls, name) == Cardinality(Events(calls, "call", name))

Invocations == Cardinality({k \in 1..Len(trace) : trace[k].kind = "invoke"})

\* The host runs a callback: it records the invocation, carries out the
\* calls and acts on the status; Continue resumes the request.  The calls
\* go to the envoy_filter of this request: another request is not touched.
Run(name, eos, outcome) ==
    /\ trace' = trace \o <<Invoke(name, eos)>> \o outcome.calls
                      \o <<Return(name, eos, outcome.status)>>
    /\ request_headers' = HeadersAfter(request_headers, outcome.calls)
    /\ route_cache_clears' = route_cache_clears
                             + CallCount(outcome.calls, "clear_route_cache")
    /\ released' = (released \/ outcome.status = "Continue")
    /\ other' = other

\* The filter chain is configured: FilterConfig::new(filter_config).
LoadConfig ==
    /\ stage = "start"
    /\ config' = [loaded |-> TRUE, debug |-> FilterConfig_new(cfg_text).debug]
    /\ stage' = "configured"
    /\ UNCHANGED <<cfg_text, remaining, buffered, released, request_headers,
                   route_cache_clears, trace, other>>

\* A request starts: new_http_filter makes its Filter.
new_http_filter ==
    /\ stage = "configured"
    /\ stage' = "headers"
    /\ UNCHANGED <<cfg_text, config, remaining, buffered, released,
                   request_headers, route_cache_clears, trace, other>>

\* The request headers arrive; end_of_stream when no body follows.
RequestHeaders(eos) ==
    /\ stage = "headers"
    /\ eos => remaining = <<>>
    /\ Run("on_request_headers", eos, on_request_headers(eos))
    /\ stage' = IF eos THEN "ended" ELSE "body"
    /\ UNCHANGED <<cfg_text, config, remaining, buffered>>

\* What get_request_body gives during a body callback: the chunks buffered
\* so far with the current one; None only when there is no data at all.
HostBodies(chunks) ==
    {Some(chunks)} \cup (IF body_data(chunks) = <<>> THEN {None} ELSE {})

\* A plausible slip: with debug set the body callback only logs the chunk
\* and lets it pass.
DeliverChunk_debug_passthrough(n, eos, host_body) ==
    LET chunk == SubSeq(remaining, 1, n) IN
    /\ n \in 0..Len(remaining)
    /\ IF eos THEN n = Len(remaining)
       ELSE n >= 1 /\ Len(buffered) + 1 < MaxChunks
    /\ host_body \in HostBodies(Append(buffered, chunk))
    /\ Run("on_request_body", eos,
           IF config.debug THEN Outcome(<<>>, "Continue")
           ELSE on_request_body(host_body, eos))
    /\ buffered' = Append(buffered, chunk)
    /\ remaining' = SubSeq(remaining, n + 1, Len(remaining))
    /\ UNCHANGED <<cfg_text, config>>

\* A plausible slip: the chunks of all requests are accumulated in one
\* buffer shared by the Filter instances, and the decision runs over it.
DeliverChunk_shared_buffer(n, eos, host_body) ==
    LET chunk == SubSeq(remaining, 1, n) IN
    /\ n \in 0..Len(remaining)
    /\ IF eos THEN n = Len(remaining)
       ELSE n >= 1 /\ Len(buffered) + 1 < MaxChunks
    /\ host_body \in HostBodies(Append(buffered, chunk))
    /\ Run("on_request_body", eos,
           on_request_body(Some(other.buffered \o host_body.buffers), eos))
    /\ buffered' = Append(buffered, chunk)
    /\ remaining' = SubSeq(remaining, n + 1, Len(remaining))
    /\ UNCHANGED <<cfg_text, config>>

\* The next n bytes of the body arrive as a data chunk.
DeliverChunk(n, eos, host_body) ==
    LET chunk == SubSeq(remaining, 1, n) IN
    /\ n \in 0..Len(remaining)
    /\ IF eos THEN n = Len(remaining)
       ELSE n >= 1 /\ Len(buffered) + 1 < MaxChunks
    /\ host_body \in HostBodies(Append(buffered, chunk))
    /\ Run("on_request_body", eos, on_request_body(host_body, eos))
    /\ buffered' = Append(buffered, chunk)
    /\ remaining' = SubSeq(remaining, n + 1, Len(remaining))
    /\ UNCHANGED <<cfg_text, config>>

\* A data chunk arrives after the headers; the last one ends the stream.
RequestBody(n, eos, host_body) ==
    /\ stage = "body"
    /\ DeliverChunk(n, eos, host_body)
    /\ stage' = IF eos THEN "ended" ELSE "body"

\* The whole body arrives as one chunk that ends the stream.
RequestBodyWhole(host_body) ==
    /\ buffered = <<>>
    /\ RequestBody(Len(remaining), TRUE, host_body)

\* Trailers arrive after the body: they end the stream, no data chunk did.
RequestTrailers ==
    /\ stage = "body"
    /\ remaining = <<>>
    /\ Run("on_request_trailers", TRUE, on_request_trailers)
    /\ stage' = "ended"
    /\ UNCHANGED <<cfg_text, config, remaining, buffered>>

\* A host that does not keep the order: on_request_body is invoked again
\* with end_of_stream after the stream has ended.
ReinvokeBody(host_body) ==
    /\ stage = "ended"
    /\ Invocations < MaxCalls
    /\ host_body \in HostBodies(buffered)
    /\ Run("on_request_body", TRUE, on_request_body(host_body, TRUE))
    /\ UNCHANGED <<cfg_text, config, stage, remaining, buffered>>

\* A host that does not keep the order: a data chunk before the headers.
BodyBeforeHeaders(n, eos, host_body) ==
    /\ stage = "headers"
    /\ Invocations < MaxCalls
    /\ DeliverChunk(n, eos, host_body)
    /\ stage' = IF eos THEN "ended" ELSE "headers"

BodyOptions == {None} \cup {Some(Append(buffered, SubSeq(remaining, 1, n))) :
                            n \in 0..Len(remaining)}

\* Envoy's order of callbacks for one request.
Next ==
    \/ LoadConfig
    \/ new_http_filter
    \/ \E eos \in BOOLEAN : RequestHeaders(eos)
    \/ \E n \in 0..Len(remaining), eos \in BOOLEAN, hb \in BodyOptions :
          RequestBody(n, eos, hb)
    \/ RequestTrailers

Spec == Init /\ [][Next]_vars

\* What a body callback may do, as far as the host is concerned.
BodyOutcomes ==
    {Outcome(calls, status) :
        calls \in {<<>>} \cup
                  {<<Call("get_request_body", "", ""),
                     Call("set_request_header", "x-route-to", r),
                     Call("clear_route_cache", "", "")>> : r \in {"echo1", "echo2"}},
        status \in {"StopIterationAndBuffer", "Continue"}}

\* The host runs on_request_body on the next data of the request, whatever
\* the callback does with it: the steps of RequestBody, told by what the
\* host does alone.
HostDeliversBody ==
    /\ stage = "body"
    /\ \E n \in 0..Len(remaining), eos \in BOOLEAN, outcome \in BodyOutcomes :
          /\ Run("on_request_body", eos, outcome)
          /\ buffered' = Append(buffered, SubSeq(remaining, 1, n))
          /\ remaining' = SubSeq(remaining, n + 1, Len(remaining))
          /\ stage' = IF eos THEN "ended" ELSE "body"
          /\ UNCHANGED <<cfg_text, config>>

\* The host keeps the request going: after new_http_filter the headers are
\* delivered, and while the stream is open data is delivered until a chunk
\* or the trailers end it.  The callbacks themselves run to completion (no
\* wait, no unbounded loop), which is why each is one step.
SpecLive ==
    /\ Init
    /\ [][Next]_vars
    /\ WF_vars(\E eos \in BOOLEAN : RequestHeaders(eos))
    /\ WF_vars(HostDeliversBody)

\* The decision on a body delivered whole.
NextRoute ==
    \/ LoadConfig
    \/ new_http_filter
    \/ \E eos \in BOOLEAN : RequestHeaders(eos)
    \/ \E hb \in BodyOptions : RequestBodyWhole(hb)

SpecRoute == InitRoute /\ [][NextRoute]_vars

\* The configuration alone.
NextConfig == LoadConfig

SpecConfig == InitConfig /\ [][NextConfig]_vars

\* Any order of callbacks.
NextAnyHost ==
    \/ Next
    \/ \E hb \in {None, Some(buffered)} : ReinvokeBody(hb)
    \/ \E n \in 0..Len(remaining), eos \in BOOLEAN, hb \in BodyOptions :
          BodyBeforeHeaders(n, eos, hb)

SpecAnyHost == InitAnyHost /\ [][NextAnyHost]_vars

\* ------------------------------------------------------------------------
\* Two requests in flight
\* ------------------------------------------------------------------------

\* The size of the chunks that do not end the stream, with two requests.
ChunkBytes == 8

TwoBodies == {B_empty, B_echo2, B_echo1}

\* The request whose callback the host runs next.
Current ==
    [stage |-> stage, remaining |-> remaining, buffered |-> buffered,
     released |-> released, request_headers |-> request_headers,
     route_cache_clears |-> route_cache_clears, trace |-> trace]

InitTwo ==
    /\ cfg_text = G_empty
    /\ config = NoConfig
    /\ stage = "start"
    /\ remaining \in TwoBodies
    /\ buffered = <<>>
    /\ released = FALSE
    /\ request_headers = [h \in {"x-route-to"} |-> <<>>]
    /\ route_cache_clears = 0
    /\ trace = <<>>
    /\ other \in {FreshRequest("configured", body) : body \in TwoBodies}

\* The host turns to the other request: the callbacks of the two requests
\* interleave in any order.
Switch ==
    /\ config.loaded
    /\ other.stage # "none"
    /\ stage' = other.stage
    /\ remaining' = other.remaining
    /\ buffered' = other.buffered
    /\ released' = other.released
    /\ request_headers' = other.request_headers
    /\ route_cache_clears' = other.route_cache_clears
    /\ trace' = other.trace
    /\ other' = Current
    /\ UNCHANGED <<cfg_text, config>>

NextTwo ==
    \/ LoadConfig
    \/ new_http_filter
    \/ \E eos \in BOOLEAN : RequestHeaders(eos)
    \/ \E n \in {ChunkBytes, Len(remaining)}, eos \in BOOLEAN, hb \in BodyOptions :
          RequestBody(n, eos, hb)
    \/ RequestTrailers
    \/ Switch

SpecTwo == InitTwo /\ [][NextTwo]_vars

\* ------------------------------------------------------------------------
\* The logging passthrough filter (logging_passthrough.rs)
\* ------------------------------------------------------------------------

\* log_body shows at most this many bytes of a body: &body_str[..200].
PREVIEW_LIMIT == 200

\* str::is_char_boundary on valid UTF-8: the start, the end, or a byte that
\* does not continue a character (0x80..0xBF continue one).
is_char_boundary(s, index) ==
    \/ index = 0
    \/ index = Len(s)
    \/ index < Len(s) /\ s[index + 1] \notin 128..191

\* Filter::log_body: it writes to stderr, and it panics when it slices the
\* preview inside a character (a str is sliced on character boundaries).
log_body(body, end_of_stream) ==
    IF ~body.some THEN "logged"
    ELSE IF Len(body.data) = 0 THEN "logged"
    ELSE IF ~from_utf8_ok(body.data) THEN "logged"
    ELSE IF Len(body.data) <= PREVIEW_LIMIT THEN "logged"
    ELSE IF is_char_boundary(body.data, PREVIEW_LIMIT) THEN "logged"
    ELSE "panic"

\* The argument of log_body in the body callbacks: Some(&body_data), None.
logged_body(host_body) ==
    IF host_body.some THEN [some |-> TRUE, data |-> body_data(host_body.buffers)]
    ELSE [some |-> FALSE, data |-> <<>>]

\* The status of a body callback: Continue once log_body has returned; a
\* panic in log_body ends the callback without a status.
status_after_log(logged) == IF logged = "panic" THEN "panic" ELSE "Continue"

\* Filter::on_request_headers, on_request_trailers, on_response_headers and
\* on_response_trailers of the logging filter: read, log, Continue.
logging_on_request_headers(end_of_stream) ==
    Outcome(<<Call("get_request_headers", "", "")>>, "Continue")

logging_on_request_trailers ==
    Outcome(<<Call("get_request_trailers", "", "")>>, "Continue")

logging_on_response_headers(end_of_stream) ==
    Outcome(<<Call("get_response_headers", "", "")>>, "Continue")

logging_on_response_trailers ==
    Outcome(<<Call("get_response_trailers", "", "")>>, "Continue")

\* Filter::on_request_body and on_response_body of the logging filter.
logging_on_request_body(host_body, end_of_stream) ==
    Outcome(<<Call("get_request_body", "", "")>>,
            status_after_log(log_body(logged_body(host_body), end_of_stream)))

logging_on_response_body(host_body, end_of_stream) ==
    Outcome(<<Call("get_response_body", "", "")>>,
            status_after_log(log_body(logged_body(host_body), end_of_stream)))

\* Bodies longer than the preview: 201 bytes of ASCII; 199 bytes of ASCII
\* and a two-byte character that lies across the limit; 198 bytes of ASCII,
\* a two-byte character that ends at the limit, and one more byte; 201
\* bytes that are not UTF-8.
L_ascii == [i \in 1..(PREVIEW_LIMIT + 1) |-> 97]
L_straddle == [i \in 1..(PREVIEW_LIMIT - 1) |-> 97] \o <<195, 169>>
L_boundary == [i \in 1..(PREVIEW_LIMIT - 2) |-> 97] \o <<195, 169, 97>>
L_non_utf8 == [i \in 1..(PREVIEW_LIMIT + 1) |-> 255]

LoggingBodies ==
    {B_empty, B_echo2, B_non_utf8, L_ascii, L_straddle, L_boundary, L_non_utf8}

\* FilterConfig::new of the logging filter computes what the routing
\* filter's does (empty after trim, or a parse error, gives debug = false).
InitLogging ==
    /\ cfg_text \in {G_empty, G_debug_true}
    /\ remaining \in LoggingBodies
    /\ InitRequest

\* The host runs a body callback of the logging filter on the next n bytes;
\* the filter buffers nothing, so the callback sees that chunk.  After a
\* panic no callback runs.
LogBody(n, eos, host_body, name, outcome, open, done) ==
    /\ n \in 0..Len(remaining)
    /\ IF eos THEN n = Len(remaining)
       ELSE n >= 1 /\ Len(buffered) + 1 < MaxChunks
    /\ host_body \in HostBodies(<<SubSeq(remaining, 1, n)>>)
    /\ Run(name, eos, outcome)
    /\ buffered' = Append(buffered, SubSeq(remaining, 1, n))
    /\ remaining' = SubSeq(remaining, n + 1, Len(remaining))
    /\ stage' = IF outcome.status = "panic" THEN "aborted"
                ELSE IF eos THEN done ELSE open
    /\ UNCHANGED <<cfg_text, config>>

LogRequestHeaders(eos) ==
    /\ stage = "headers"
    /\ eos => remaining = <<>>
    /\ Run("on_request_headers", eos, logging_on_request_headers(eos))
    /\ stage' = IF eos THEN "response_headers" ELSE "body"
    /\ UNCHANGED <<cfg_text, config, remaining, buffered>>

LogRequestBody(n, eos, host_body) ==
    /\ stage = "body"
    /\ LogBody(n, eos, host_body, "on_request_body",
               logging_on_request_body(host_body, eos), "body", "response_headers")

LogRequestTrailers ==
    /\ stage = "body"
    /\ remaining = <<>>
    /\ Run("on_request_trailers", TRUE, logging_on_request_trailers)
    /\ stage' = "response_headers"
    /\ UNCHANGED <<cfg_text, config, remaining, buffered>>

\* The response of the upstream arrives, with `body` to follow.
LogResponseHeaders(eos, body) ==
    /\ stage = "response_headers"
    /\ eos => body = <<>>
    /\ Run("on_response_headers", eos, logging_on_response_headers(eos))
    /\ remaining' = body
    /\ buffered' = <<>>
    /\ stage' = IF eos THEN "ended" ELSE "response_body"
    /\ UNCHANGED <<cfg_text, config>>

LogResponseBody(n, eos, host_body) ==
    /\ stage = "response_body"
    /\ LogBody(n, eos, host_body, "on_response_body",
               logging_on_response_body(host_body, eos), "response_body", "ended")

LogResponseTrailers ==
    /\ stage = "response_body"
    /\ remaining = <<>>
    /\ Run("on_response_trailers", TRUE, logging_on_response_trailers)
    /\ stage' = "ended"
    /\ UNCHANGED <<cfg_text, config, remaining, buffered>>

\* The chunks the host may hand to the logging filter.
LogChunks == {None} \cup {Some(<<SubSeq(remaining, 1, n)>>) :
                          n \in {0, ChunkBytes, Len(remaining)}
                                   \cap (0..Len(remaining))}

NextLogging ==
    \/ LoadConfig
    \/ new_http_filter
    \/ \E eos \in BOOLEAN : LogRequestHeaders(eos)
    \/ \E n \in {ChunkBytes, Len(remaining)}, eos \in BOOLEAN, hb \in LogChunks :
          LogRequestBody(n, eos, hb)
    \/ LogRequestTrailers
    \/ \E eos \in BOOLEAN, body \in LoggingBodies : LogResponseHeaders(eos, body)
    \/ \E n \in {ChunkBytes, Len(remaining)}, eos \in BOOLEAN, hb \in LogChunks :
          LogResponseBody(n, eos, hb)
    \/ LogResponseTrailers

SpecLogging == InitLogging /\ [][NextLogging]_vars

\* ------------------------------------------------------------------------
\* What the claims speak of
\* ------------------------------------------------------------------------

\* The values of the request header x-route-to (none when it is not set).
RouteHeader == request_headers["x-route-to"]

\* The body bytes delivered so far, chunk after chunk.
DeliveredBody == body_data(buffered)

\* on_request_body has been invoked with end_of_stream = true.
FinalChunkDelivered ==
    \E k \in 1..Len(trace) : trace[k] = Invoke("on_request_body", TRUE)

\* The request started with headers that announce a body.
BodyExpected == trace # <<>> /\ trace[1] = Invoke("on_request_headers", FALSE)

\* The request started with headers that end the stream.
HeaderOnly == trace # <<>> /\ trace[1] = Invoke("on_request_headers", TRUE)

\* The places in the trace where a callback returned `status`.
Returns(status) ==
    {k \in 1..Len(trace) : trace[k].kind = "return" /\ trace[k].value = status}

\* The places in the trace of the calls of `name`.
Calls(name) == Events(trace, "call", name)

\* The place of the invocation that the event at k belongs to.
InvocationOf(k) ==
    Max({i \in 1..k : trace[i].kind = "invoke"})

\* The text is a JSON document whose `method` member is a string that
\* contains echo2 (the document read in full, no shortcut taken).
MethodOf(doc) ==
    IF doc.ok THEN as_str(Value_get(doc.v, METHOD)) ELSE [some |-> FALSE, s |-> <<>>]

HasEcho2Method(data) ==
    /\ from_utf8_ok(data)
    /\ MethodOf(from_str_Value(data)).some
    /\ Contains(MethodOf(from_str_Value(data)).s, ECHO2)

\* ------------------------------------------------------------------------
\* Claims
\* ------------------------------------------------------------------------

\* C1 (as claimed): once the final on_request_body has run on a body that
\* is a JSON document with a string `method` member containing echo2, the
\* header x-route-to is echo2.  The code first looks for the bytes
\* "method" (quotes included) in the raw text, so a document that writes the
\* key with an escape, {"m\u0065thod":"echo2"}, is routed to echo1.
C1_Echo2MethodRoutesToEcho2 ==
    (FinalChunkDelivered /\ HasEcho2Method(DeliveredBody))
        => RouteHeader = <<"echo2">>

\* C2: once the final on_request_body has run on a body that is not a
\* JSON document with a string `method` member containing echo2 (member
\* missing, other value, malformed, empty, no buffers, not UTF-8), the
\* header x-route-to is echo1.
C2_OtherBodiesRouteToEcho1 ==
    (FinalChunkDelivered /\ ~HasEcho2Method(DeliveredBody))
        => RouteHeader = <<"echo1">>

\* C2's case: the final callback ran on a body that is not UTF-8 (and holds
\* the text echo2) and set echo1.
C2_Witness ==
    /\ FinalChunkDelivered
    /\ DeliveredBody = B_non_utf8
    /\ RouteHeader = <<"echo1">>

\* C3 (as claimed): in a request whose headers announce a body, the header
\* callback returns StopIteration, every body callback without
\* end_of_stream returns StopIterationAndBuffer, and over the whole request
\* Continue is returned exactly once, by the body callback with
\* end_of_stream.  The code holds this for a stream that a body chunk ends.
\* When trailers end the stream no body callback carries end_of_stream, and
\* the one Continue of the request is returned by the trait's default
\* on_request_trailers, with the routing decision never made.
C3_PauseInvariant ==
    BodyExpected =>
        /\ \A k \in 1..Len(trace) :
              (trace[k].kind = "return" /\ ~trace[k].eos) =>
                  /\ trace[k].name = "on_request_headers"
                        => trace[k].value = "StopIteration"
                  /\ trace[k].name = "on_request_body"
                        => trace[k].value = "StopIterationAndBuffer"
        /\ DeliveredBody # <<>> =>
              /\ \A k \in Returns("Continue") :
                    trace[k] = Return("on_request_body", TRUE, "Continue")
              /\ Cardinality(Returns("Continue")) <= 1
              /\ stage = "ended" => Cardinality(Returns("Continue")) = 1

\* C4 (as claimed): a request with a body is not released before
\* x-route-to is written and the route cache invalidated.  When trailers
\* end the stream, no body callback carries end_of_stream: the filter has
\* paused the request and the trait's default on_request_trailers resumes
\* it with no header written and no invalidation.
C4_NoReleaseBeforeDecision ==
    (BodyExpected /\ DeliveredBody # <<>> /\ released)
        => (RouteHeader # <<>> /\ route_cache_clears >= 1)

\* C5 (as claimed): when the request has ended, the route cache has been
\* invalidated exactly once.
C5_ClearedExactlyOnce ==
    stage = "ended" => route_cache_clears = 1

\* C5 (amended): the route cache is never invalidated more than once, and
\* it has been invalidated exactly once when, and only when, a body
\* callback with end_of_stream has run, in that callback; a request
\* without a body is completed with no invalidation.
C5_ClearedOnceOnFinalChunk ==
    /\ route_cache_clears = Cardinality(Calls("clear_route_cache"))
    /\ route_cache_clears = (IF FinalChunkDelivered THEN 1 ELSE 0)

\* C5's case: the final chunk of a body in several chunks has been handled.
C5_Witness ==
    /\ FinalChunkDelivered
    /\ Len(buffered) >= 2
    /\ route_cache_clears = 1

\* C6: every clear_route_cache call lies in an invocation of
\* on_request_body with end_of_stream, after a set_request_header of
\* x-route-to in that same invocation; and every Continue that
\* on_request_body returns comes after both calls of its invocation.
C6_DecisionOrder ==
    /\ \A k \in Calls("clear_route_cache") :
          /\ trace[InvocationOf(k)] = Invoke("on_request_body", TRUE)
          /\ \E j \in (InvocationOf(k) + 1)..(k - 1) :
                /\ trace[j].kind = "call"
                /\ trace[j].name = "set_request_header"
                /\ trace[j].key = "x-route-to"
    /\ \A r \in Returns("Continue") :
          trace[r].name = "on_request_body" =>
              \E j, k \in (InvocationOf(r) + 1)..(r - 1) :
                  /\ j < k
                  /\ trace[j].name = "set_request_header"
                  /\ trace[k].name = "clear_route_cache"

\* C6's case: a decision has been made and the request resumed.
C6_Witness ==
    /\ Calls("clear_route_cache") # {}
    /\ Calls("set_request_header") # {}
    /\ trace[Len(trace)] = Return("on_request_body", TRUE, "Continue")
    /\ RouteHeader = <<"echo2">>

\* C7 (as claimed): a request whose headers end the stream is not paused
\* and its routing decision is echo1.  The header callback returns Continue
\* without setting x-route-to, so the request goes on with no such header
\* from the filter.
C7_NoBodyDefaultRoute ==
    HeaderOnly =>
        /\ Returns("StopIteration") = {}
        /\ Returns("StopIterationAndBuffer") = {}
        /\ released
        /\ RouteHeader = <<"echo1">>

\* C7 (amended): a request whose headers end the stream sees one callback,
\* which returns Continue: no pause status is returned, the body is not
\* read, and the filter makes no decision of its own: it sets no
\* x-route-to and does not clear the route cache, so the route is whatever
\* the host's route table gives.
C7_NoBodyNoPause ==
    HeaderOnly =>
        /\ trace = <<Invoke("on_request_headers", TRUE),
                     Return("on_request_headers", TRUE, "Continue")>>
        /\ Returns("StopIteration") = {}
        /\ Returns("StopIterationAndBuffer") = {}
        /\ released
        /\ Calls("set_request_header") = {}
        /\ RouteHeader = <<>>
        /\ route_cache_clears = 0

\* C7's case: a request without a body has been handled.
C7_Witness ==
    /\ HeaderOnly
    /\ stage = "ended"
    /\ released

\* C8 (as claimed): when the request has ended, x-route-to has been set
\* exactly once, to echo1 or echo2.
C8_HeaderSetExactlyOnce ==
    stage = "ended" =>
        /\ Cardinality(Calls("set_request_header")) = 1
        /\ RouteHeader \in {<<"echo1">>, <<"echo2">>}

\* C8 (amended): x-route-to is set exactly once, to echo1 or echo2, when a
\* body callback with end_of_stream has run, by that callback; until then,
\* and in a request without a body, the filter has not set it.
C8_HeaderSetOnceOnFinalChunk ==
    /\ Cardinality(Calls("set_request_header"))
           = (IF FinalChunkDelivered THEN 1 ELSE 0)
    /\ \A k \in Calls("set_request_header") :
          /\ trace[k].key = "x-route-to"
          /\ trace[k].value \in {"echo1", "echo2"}
          /\ RouteHeader = <<trace[k].value>>
    /\ ~FinalChunkDelivered => RouteHeader = <<>>

\* C8's case: the request has ended on a final chunk with the header set.
C8_Witness ==
    /\ stage = "ended"
    /\ FinalChunkDelivered
    /\ RouteHeader = <<"echo1">>
    /\ DeliveredBody = B_echo1

\* The text is a JSON document by the grammar (escapes not validated).
JsonGrammarOk(s) == Document(s, ParseValue(s, 1, FALSE, RECURSION_LIMIT)).ok

\* The value of a document by the grammar, null when it is none.
JsonOf(s) ==
    IF JsonGrammarOk(s)
    THEN Document(s, ParseValue(s, 1, FALSE, RECURSION_LIMIT)).v
    ELSE JNull

\* C9: FilterConfig::new always yields a configuration.  debug is false
\* for an empty or all-whitespace text, for a text that is not JSON, for a
\* document that is neither an object nor an array (null), and for an
\* object without a `debug` key; it is true for {"debug": true}, and it is
\* the value of `debug` in any object holding that key once, with a bool.
C9_ConfigFallback ==
    config.loaded =>
        /\ config.debug \in BOOLEAN
        /\ trim_is_empty(cfg_text) => ~config.debug
        /\ ~JsonGrammarOk(cfg_text) => ~config.debug
        /\ (JsonGrammarOk(cfg_text) /\ JsonOf(cfg_text).t \notin {"object", "array"})
              => ~config.debug
        /\ (JsonOf(cfg_text).t = "object" /\ KeyPositions(JsonOf(cfg_text).m, DEBUG) = {})
              => ~config.debug
        /\ cfg_text = G_debug_true => config.debug
        /\ (/\ JsonOf(cfg_text).t = "object"
            /\ from_str_Value(cfg_text).ok
            /\ Cardinality(KeyPositions(JsonOf(cfg_text).m, DEBUG)) = 1
            /\ Value_get(JsonOf(cfg_text), DEBUG).v.t = "bool")
              => config.debug = Value_get(JsonOf(cfg_text), DEBUG).v.b

\* C9's case: a text that is not JSON has been loaded and debug is false.
C9_Witness ==
    /\ config.loaded
    /\ cfg_text = G_invalid
    /\ config.debug = FALSE

\* C10 (as claimed): the decision is made at most once for a request,
\* whatever callbacks the host invokes again: the body is read, x-route-to
\* set and the route cache invalidated at most once.  Filter holds no
\* state, so a second on_request_body with end_of_stream does all three
\* again.
C10_DecidedAtMostOnce ==
    /\ Cardinality(Calls("get_request_body")) <= 1
    /\ Cardinality(Calls("set_request_header")) <= 1
    /\ route_cache_clears <= 1

\* C11: no decision is made on a partial body.  Every call on envoy_filter
\* (get_request_body, set_request_header, clear_route_cache) lies in an
\* invocation of on_request_body with end_of_stream; on_request_headers
\* and on_request_body without end_of_stream return without any call, and
\* until the final chunk is handled no header is set and no route cache
\* cleared.
C11_NoDecisionOnPartialBody ==
    /\ \A k \in 1..Len(trace) :
          trace[k].kind = "call" =>
              trace[InvocationOf(k)] = Invoke("on_request_body", TRUE)
    /\ \A k \in 1..Len(trace) :
          (trace[k].kind = "invoke" /\ trace[k] # Invoke("on_request_body", TRUE))
              => trace[k + 1].kind = "return"
    /\ ~FinalChunkDelivered =>
          /\ Calls("get_request_body") = {}
          /\ RouteHeader = <<>>
          /\ route_cache_clears = 0

\* C11's case: two chunks of a body that routes to echo2 have been
\* buffered, the second completing the document, and the final chunk is
\* still to come.
C11_Witness ==
    /\ BodyExpected
    /\ ~FinalChunkDelivered
    /\ Len(buffered) = 2
    /\ DeliveredBody = B_echo2
    /\ Cardinality(Returns("StopIterationAndBuffer")) = 2

\* The chunks joined in delivery order, first to last.
RECURSIVE InDeliveryOrder(_)
InDeliveryOrder(chunks) ==
    IF chunks = <<>> THEN <<>>
    ELSE InDeliveryOrder(SubSeq(chunks, 1, Len(chunks) - 1))
             \o chunks[Len(chunks)]

\* C12: once the final chunk is handled, x-route-to is the route of the
\* chunks joined in delivery order, taken as one text: the decision is a
\* function of the whole body and not of the way it was split into chunks
\* (nor of whether the host reports an empty body as no buffers).
C12_ChunkingDoesNotMatter ==
    FinalChunkDelivered =>
        /\ remaining = <<>>
        /\ InDeliveryOrder(buffered) \in LifecycleBodies
        /\ RouteHeader = <<route_to(Some(<<InDeliveryOrder(buffered)>>))>>

\* C12's case: the echo2 document arrived in three chunks, none of which
\* is a document by itself, and was routed to echo2.
C12_Witness ==
    /\ FinalChunkDelivered
    /\ Len(buffered) = 3
    /\ \A k \in 1..3 : buffered[k] # <<>>
    /\ InDeliveryOrder(buffered) = B_echo2
    /\ RouteHeader = <<"echo2">>

\* C13: whatever the body holds, on_request_headers returns StopIteration
\* or Continue and on_request_body returns StopIterationAndBuffer or
\* Continue; the only calls made on envoy_filter are get_request_body,
\* set_request_header and clear_route_cache (no response is sent); and the
\* callback of the final chunk returns Continue with x-route-to set to one
\* of the two routes, so the request is resumed.
C13_NoErrorOutcome ==
    /\ \A k \in 1..Len(trace) :
          /\ (trace[k].kind = "return" /\ trace[k].name = "on_request_headers")
                => trace[k].value \in {"StopIteration", "Continue"}
          /\ (trace[k].kind = "return" /\ trace[k].name = "on_request_body")
                => trace[k].value \in {"StopIterationAndBuffer", "Continue"}
          /\ trace[k].kind = "call"
                => trace[k].name \in {"get_request_body", "set_request_header",
                                      "clear_route_cache"}
    /\ FinalChunkDelivered =>
          /\ trace[Len(trace)] = Return("on_request_body", TRUE, "Continue")
          /\ RouteHeader \in {<<"echo1">>, <<"echo2">>}
          /\ released

\* C13's case: a truncated document has been handled and the request
\* resumed on the default route.
C13_Witness ==
    /\ FinalChunkDelivered
    /\ DeliveredBody = B_truncated
    /\ ~from_str_Value(DeliveredBody).ok
    /\ trace[Len(trace)] = Return("on_request_body", TRUE, "Continue")
    /\ RouteHeader = <<"echo1">>
    /\ released

\* The places in the trace where the decision step starts: on_request_body
\* invoked with end_of_stream.
DecisionRuns ==
    {k \in 1..Len(trace) : trace[k] = Invoke("on_request_body", TRUE)}

\* The events of the decision step on the assembled body `data`.
DecisionEvents(data) ==
    <<Invoke("on_request_body", TRUE),
      Call("get_request_body", "", ""),
      Call("set_request_header", "x-route-to", route_to(Some(<<data>>))),
      Call("clear_route_cache", "", ""),
      Return("on_request_body", TRUE, "Continue")>>

\* C14: every run of the decision step makes the calls and returns the
\* status that the assembled body alone determines, whether debug is set
\* or not and whatever callbacks ran before it (headers, buffered chunks,
\* an earlier decision, a chunk before the headers); so two runs on the
\* same body agree in route id and in control signals.
C14_OutcomeIsFunctionOfBody ==
    /\ \A k \in DecisionRuns :
          /\ k + 4 <= Len(trace)
          /\ SubSeq(trace, k, k + 4) = DecisionEvents(InDeliveryOrder(buffered))
    /\ \A i, j \in DecisionRuns :
          SubSeq(trace, i, i + 4) = SubSeq(trace, j, j + 4)

\* C14's case: with debug set, the decision step ran twice on the echo2
\* document after the headers.
C14_Witness ==
    /\ config.debug
    /\ BodyExpected
    /\ Cardinality(DecisionRuns) = 2
    /\ InDeliveryOrder(buffered) = B_echo2
    /\ RouteHeader = <<"echo2">>

\* The events a callback contributes when the request of `req` is handled
\* alone: they depend on the invocation and on the chunks of `req` only.
AloneEvents(req, k) ==
    LET inv == req.trace[k] IN
    IF inv.name = "on_request_headers"
    THEN <<inv, Return("on_request_headers", inv.eos,
                       IF inv.eos THEN "Continue" ELSE "StopIteration")>>
    ELSE IF inv.name = "on_request_trailers"
    THEN <<inv, Return("on_request_trailers", TRUE, "Continue")>>
    ELSE IF ~inv.eos
    THEN <<inv, Return("on_request_body", FALSE, "StopIterationAndBuffer")>>
    ELSE DecisionEvents(InDeliveryOrder(req.buffered))

\* The request `req` is as it would be without the other request: each
\* invocation is followed by the events its own input determines, the trace
\* holds nothing else, and the header, the route cache count and the
\* release are those of its own events.
AsIfAlone(req) ==
    LET invs == {k \in 1..Len(req.trace) : req.trace[k].kind = "invoke"}
        decided == {k \in invs : req.trace[k] = Invoke("on_request_body", TRUE)}
        bodies == {k \in invs : req.trace[k].name = "on_request_body"}
    IN  /\ \A k \in invs :
              /\ k + Len(AloneEvents(req, k)) - 1 <= Len(req.trace)
              /\ SubSeq(req.trace, k, k + Len(AloneEvents(req, k)) - 1)
                     = AloneEvents(req, k)
        /\ Len(req.trace) = 2 * Cardinality(invs) + 3 * Cardinality(decided)
        /\ Cardinality(bodies) = Len(req.buffered)
        /\ req.request_headers["x-route-to"] =
              (IF decided = {} THEN <<>>
               ELSE <<route_to(Some(<<InDeliveryOrder(req.buffered)>>))>>)
        /\ req.route_cache_clears = Cardinality(decided)
        /\ req.released =
              (\E k \in 1..Len(req.trace) :
                  req.trace[k].kind = "return" /\ req.trace[k].value = "Continue")

\* C15: with two requests in flight and their callbacks interleaved in any
\* order, each request's control signals, its x-route-to and its route
\* cache invalidations are those it gets when handled alone: they are
\* determined by its own invocations and its own chunks.
C15_RequestIsolation ==
    /\ AsIfAlone(Current)
    /\ other.stage # "none" => AsIfAlone(other)

\* C15's case: one request was routed to echo2 on its final chunk while
\* the other, with a chunk of a different body buffered, is still paused.
C15_Witness ==
    /\ stage = "ended"
    /\ Len(buffered) >= 2
    /\ InDeliveryOrder(buffered) = B_echo2
    /\ RouteHeader = <<"echo2">>
    /\ other.stage = "body"
    /\ Len(other.buffered) = 1
    /\ other.buffered[1] = SubSeq(B_echo1, 1, ChunkBytes)
    /\ ~other.released
    /\ other.request_headers["x-route-to"] = <<>>

\* The route by the full parse and field lookup, the containment check of
\* the key token left out.
RouteByFullParse(data) ==
    IF data = <<>> \/ ~from_utf8_ok(data) THEN "echo1"
    ELSE route_of_json(from_str_Value(data))

\* C16 (as claimed): the route set on the final chunk equals the route by
\* the full parse without the containment check, for every body.  The code
\* searches the raw text for "method" in quotes before it parses: a
\* document that writes the key with an escape, {"m\u0065thod":"echo2"},
\* has the member `method` once parsed but not the raw token, so the check
\* changes its route from echo2 to echo1.
C16_ContainmentCheckIsOptimisation ==
    FinalChunkDelivered =>
        RouteHeader = <<RouteByFullParse(DeliveredBody)>>

\* The document has no routing signal by its shape: it is not an object,
\* or it has no top-level member `method`, or the value of that member
\* (the last one, when the key is repeated) is not a string.
NoStringMethod(v) ==
    \/ v.t # "object"
    \/ KeyPositions(v.m, METHOD) = {}
    \/ v.m[Max(KeyPositions(v.m, METHOD))][2].t # "string"

\* C17: when the body is a JSON document without a top-level string member
\* `method` (member absent, nested in another object, number, bool, null,
\* array or object as its value, or a document that is not an object), the
\* route is echo1, wherever else the text echo2 occurs in the body.
C17_FieldShape ==
    (/\ FinalChunkDelivered
     /\ from_utf8_ok(DeliveredBody)
     /\ from_str_Value(DeliveredBody).ok
     /\ NoStringMethod(from_str_Value(DeliveredBody).v))
        => RouteHeader = <<"echo1">>

\* C17's case: {"a":{"method":"echo2"}} holds the member only inside
\* another object, and was routed to echo1.
C17_Witness ==
    /\ FinalChunkDelivered
    /\ DeliveredBody = B_nested
    /\ Contains(DeliveredBody, KEY_TOKEN)
    /\ Contains(DeliveredBody, ECHO2)
    /\ NoStringMethod(from_str_Value(DeliveredBody).v)
    /\ RouteHeader = <<"echo1">>

\* The request is completed: x-route-to written, the route cache
\* invalidated, Continue returned and the request resumed by the host.
Completed ==
    /\ RouteHeader \in {<<"echo1">>, <<"echo2">>}
    /\ route_cache_clears >= 1
    /\ Returns("Continue") # {}
    /\ released

\* C18: in a request with a body, once the host has delivered the chunk
\* with end_of_stream, the request eventually is completed, whatever the
\* body holds: the filter does not keep it paused after its final chunk.
C18_FinalChunkLeadsToCompleted ==
    (BodyExpected /\ FinalChunkDelivered) ~> Completed

\* C18's case: a body that is not a document, delivered in two chunks, has
\* been completed.
C18_Witness ==
    /\ BodyExpected
    /\ FinalChunkDelivered
    /\ Len(buffered) = 2
    /\ DeliveredBody = B_not_json
    /\ Completed

\* C19 (as claimed): a body event delivered before any header event of the
\* request produces no routing decision: every set_request_header and
\* every clear_route_cache comes after an invocation of on_request_headers.
\* Filter keeps no record of the callbacks it has seen, so on_request_body
\* with end_of_stream decides as usual when no header event preceded it.
C19_BodyBeforeHeadersDetected ==
    \A k \in Calls("set_request_header") \cup Calls("clear_route_cache") :
        \E j \in 1..(k - 1) : trace[j].kind = "invoke"
                              /\ trace[j].name = "on_request_headers"

\* C20 (as claimed): every callback of the logging filter returns Continue
\* and only reads: its calls are the get_ calls, no header is written and
\* the route cache is not invalidated.  log_body cuts the preview of a body
\* of more than 200 bytes at byte 200 with &body_str[..200]; when that byte
\* is inside a multi-byte character the slice panics and the body callback
\* does not return Continue.
C20_LoggingPassthrough ==
    /\ \A k \in 1..Len(trace) :
          /\ trace[k].kind = "return" => trace[k].value = "Continue"
          /\ trace[k].kind = "call" =>
                trace[k].name \in {"get_request_headers", "get_request_body",
                                   "get_request_trailers", "get_response_headers",
                                   "get_response_body", "get_response_trailers"}
    /\ RouteHeader = <<>>
    /\ route_cache_clears = 0
    /\ stage # "aborted"

=============================================================================
